---- MODULE Spec2Model ----
(***************************************************************************)
(* Model of sara_ecs: the entity/component table (EntityStorage), its      *)
(* query engine (Query) and the operations the World facade forwards.      *)
(*                                                                         *)
(* A u32 bitmask is modelled as the set of its set bit positions           *)
(* (a subset of 0 .. MaskWidth-1): `|` is union, `&` is intersection,      *)
(* `^` is symmetric difference, `1 << n` is {n}.                           *)
(* A Vec is a function over 0 .. len-1, so indices are the source's.       *)
(* An Option is a set with at most one element: None = {}, Some(v) = {v}.  *)
(***************************************************************************)
EXTENDS Integers, Sequences, FiniteSets, Bags, TLC

\* ------------------------------------------------------------------ bounds
NumTypes == 2       \* component types the caller may name: 1 .. NumTypes
MaxRows  == 2       \* create_entity appends only while fewer rows exist
MaxVal   == 2       \* payloads are 1 .. MaxVal
MaxFilter == 2      \* with_component_filter calls per query
MaxChain == 2       \* with_component calls followed after one create_entity
MaxHandles == 1     \* handles of a QueryResult the caller keeps at a time
MaxViews == 2       \* Ref / RefMut views alive at a time
MaxHeldRows == 1    \* rows of the tables of the view, stale-data and World specifications
MaxHeldFilter == 1  \* with_component_filter calls per query whose views are followed
WideWindow == 4     \* types registered around the width of the mask

\* ------------------------------------------------------- program constants
MaskWidth == 32     \* component_bitmasks: HashMap<TypeId, u32>

Types  == 1 .. NumTypes
Values == 1 .. MaxVal
RowArgs == 0 .. MaxRows     \* usize arguments; MaxRows is never allocated

\* ECSError
CreateComponentNeverCalled == "CreateComponentNeverCalled"
ComponentNotRegistered == "ComponentNotRegistered"
EntityDoesNotExist == "EntityDoesNotExist"
ComponentDoesNotExist == "ComponentDoesNotExist"
ResourceAlreadyRegistered == "ResourceAlreadyRegistered"
Ok == "Ok"
Panic == "panic"

\* ---------------------------------------------------------------- helpers
\* Option<Component>
None == {}
Some(v) == {v}

\* Vec<_> as a function over 0 .. len-1
EmptyVec == [i \in {} |-> None]
VecLen(vec) == Cardinality(DOMAIN vec)
VecPush(vec, x) == [i \in 0 .. VecLen(vec) |-> IF i < VecLen(vec) THEN vec[i] ELSE x]

\* u32 operators on bit sets
BitOrAssign(a, b) == b      \* `=` written for `|=`
BitOr(a, b) == a \cup b
BitAnd(a, b) == a \cap b
BitXorAsOr(a, b) == a \cup b     \* `|=` written for `^=`
BitXor(a, b) == (a \ b) \cup (b \ a)
Zero == {}

\* `1 << n` on u32.  For n >= 32 a debug build panics (arithmetic overflow
\* check) and a release build masks the shift amount; both are outcomes.
ShlOverflow == {-1}
ShlOne(n) == IF n < MaskWidth THEN {{n}} ELSE {{n % MaskWidth}, ShlOverflow}

VARIABLES
    components,                 \* HashMap<TypeId, Vec<Option<Component>>>
    component_bitmasks,         \* HashMap<TypeId, u32>
    entity_component_bitmasks,  \* Vec<u32>
    next_free_entity_id,        \* usize
    query,                      \* the Query borrowing the table, if one is alive
    panicked,                   \* the thread has panicked (no further call)
    call,                       \* the operation called last
    ret,                        \* what the last call returned
    data,                       \* ResourceStorage: HashMap<TypeId, Box<dyn Any>>
    handles,                    \* the Components (Rc clones) of a QueryResult the caller holds
    views,                      \* the Ref / RefMut views alive, a bag
    last_stored,                     \* history: (row, type) -> value last stored in the slot
    last_written,                    \* history: (row, type) -> value last written through a RefMut
    observe,                    \* which history variable this specification records
    reg_order,                  \* history: the distinct types, in order of first registration
    carried,                    \* history: per row, the types attached and not detached since
    life,                       \* history: the rows removed and not selected by create_entity since
    chain,                      \* history: the with_component calls since create_entity
    stale,                      \* history: the cells that hold data of a removed entity
    hwm,                        \* history: the largest number of rows with a non-zero mask so far
    freed,                      \* history: the row whose mask the last call zeroed, and by which call
    recycled                    \* history: the rows removed, and the rows given to a new entity

table == <<components, component_bitmasks, entity_component_bitmasks,
           next_free_entity_id>>
vars == <<components, component_bitmasks, entity_component_bitmasks,
          next_free_entity_id, query, panicked, call, ret, data, handles, views, last_stored, last_written,
          observe, reg_order, carried, life, chain, stale, hwm, freed, recycled>>

NumRows == VecLen(entity_component_bitmasks)
Rows == DOMAIN entity_component_bitmasks

\* no Query is alive: the table is not borrowed
NoQuery == [live |-> FALSE, filter_mask |-> Zero, component_type_ids |-> EmptyVec]

\* no create_entity().with_component()... chain is in progress
NoChain == [valid |-> FALSE, attached |-> <<>>]

\* no cell holds data of a removed entity
NoStale == [removed |-> {}, cells |-> {}]

\* no row was removed
NoRecycled == [removed |-> {}, reused |-> {}]

\* no call has just zeroed a mask
NoFreed == [row |-> {}, by |-> "", reused |-> FALSE]

\* EntityStorage::default()
Init ==
    /\ components = [t \in {} |-> EmptyVec]
    /\ component_bitmasks = [t \in {} |-> Zero]
    /\ entity_component_bitmasks = [i \in {} |-> Zero]
    /\ next_free_entity_id = 0
    /\ query = NoQuery
    /\ panicked = FALSE
    /\ call = "default"
    /\ ret = Ok
    /\ data = [t \in {} |-> None]
    /\ handles = {}
    /\ views = EmptyBag
    /\ last_stored = [c \in {} |-> 0]
    /\ last_written = [c \in {} |-> 0]
    /\ observe \in {"none", "registration", "carried", "life", "chain", "stale",
                   "stored", "written", "hwm", "freed", "recycled"}
    /\ reg_order = <<>>
    /\ carried = [i \in {} |-> {}]
    /\ life = [removed |-> {}, reused |-> FALSE]
    /\ chain = NoChain
    /\ stale = NoStale
    /\ hwm = 0
    /\ freed = NoFreed
    /\ recycled = NoRecycled

\* HashMap::insert
MapInsert(map, k, v) == [x \in DOMAIN map \cup {k} |-> IF x = k THEN v ELSE map[x]]

\* the operand of `1 << self.component_bitmasks.len()`
NextBit(bitmasks) == Cardinality(DOMAIN bitmasks)

\* EntityStorage::register_component::<T>()
register_component(T) ==
    /\ ~panicked
    /\ call' = "register_component"
    /\ components' = MapInsert(components, T, EmptyVec)
    /\ \E mask \in ShlOne(NextBit(component_bitmasks)) :
          IF mask = ShlOverflow
          THEN /\ panicked' = TRUE
               /\ ret' = Panic
               /\ UNCHANGED component_bitmasks
          ELSE /\ component_bitmasks' = MapInsert(component_bitmasks, T, mask)
               /\ ret' = Ok
               /\ UNCHANGED panicked
    /\ query' = NoQuery
    /\ UNCHANGED <<entity_component_bitmasks, next_free_entity_id>>

\* the scan stops at a row with `**mask != 0`
FreeRowsLive(masks) == {i \in DOMAIN masks : masks[i] # Zero}

\* the rows `find(|(_index, mask)| **mask == 0)` can stop at
FreeRowsNone(masks) == {}   \* the scan finds nothing: always append
FreeRows(masks) == {i \in DOMAIN masks : masks[i] = Zero}

\* Iterator::find: the first match
FindFreeLast(masks) == CHOOSE i \in FreeRows(masks) : \A j \in FreeRows(masks) : i >= j
FindFree(masks) == CHOOSE i \in FreeRows(masks) : \A j \in FreeRows(masks) : i <= j

\* EntityStorage::create_entity()
create_entity ==
    /\ ~panicked
    /\ call' = "create_entity"
    /\ ret' = Ok
    /\ IF FreeRows(entity_component_bitmasks) # {}
       THEN /\ next_free_entity_id' = FindFree(entity_component_bitmasks)
            /\ UNCHANGED <<components, entity_component_bitmasks>>
       ELSE /\ NumRows < MaxRows
            /\ components' = [t \in DOMAIN components |-> VecPush(components[t], None)]
            /\ entity_component_bitmasks' = VecPush(entity_component_bitmasks, Zero)
            /\ next_free_entity_id' = VecLen(entity_component_bitmasks') - 1
    /\ query' = NoQuery
    /\ UNCHANGED <<component_bitmasks, panicked>>

\* with_component's lookups: the column of the type, then the slot at the cursor
ColumnLookupSlotFirst(T, index) ==      \* the slot is looked up before the column
    IF index \notin DOMAIN entity_component_bitmasks THEN CreateComponentNeverCalled
    ELSE IF T \notin DOMAIN components THEN ComponentNotRegistered
    ELSE IF index \in DOMAIN components[T] THEN Ok ELSE CreateComponentNeverCalled
ColumnLookup(T, index) ==
    IF T \in DOMAIN components
    THEN IF index \in DOMAIN components[T] THEN Ok ELSE CreateComponentNeverCalled
    ELSE ComponentNotRegistered

\* with_component that moves the cursor to the next row after attaching
with_component_advancing(T, v) ==
    /\ ~panicked
    /\ call' = "with_component"
    /\ LET index == next_free_entity_id IN
       IF ColumnLookup(T, index) = Ok
       THEN /\ components' = [components EXCEPT ![T][index] = Some(v)]
            /\ entity_component_bitmasks' =
                   [entity_component_bitmasks EXCEPT
                       ![index] = BitOr(@, component_bitmasks[T])]
            /\ next_free_entity_id' = index + 1
            /\ ret' = Ok
       ELSE /\ ret' = ColumnLookup(T, index)
            /\ UNCHANGED <<components, entity_component_bitmasks, next_free_entity_id>>
    /\ query' = NoQuery
    /\ UNCHANGED <<component_bitmasks, panicked>>

\* EntityStorage::with_component(data), data of type T with payload v
with_component(T, v) ==
    /\ ~panicked
    /\ call' = "with_component"
    /\ LET index == next_free_entity_id IN
       IF ColumnLookup(T, index) = Ok
       THEN /\ components' = [components EXCEPT ![T][index] = Some(v)]
            /\ entity_component_bitmasks' =
                   [entity_component_bitmasks EXCEPT
                       ![index] = BitOr(@, component_bitmasks[T])]
            /\ ret' = Ok
       ELSE /\ ret' = ColumnLookup(T, index)
            /\ UNCHANGED <<components, entity_component_bitmasks>>
    /\ query' = NoQuery
    /\ UNCHANGED <<component_bitmasks, next_free_entity_id, panicked>>

\* EntityStorage::get_bitmask(type_id)
get_bitmask(T) == IF T \in DOMAIN component_bitmasks THEN Some(component_bitmasks[T]) ELSE None

\* EntityStorage::has_component(index, mask); index is in bounds
has_component(index, mask) == BitAnd(entity_component_bitmasks[index], mask) = mask

\* EntityStorage::remove_entity_component::<T>(index)
remove_entity_component(T, index) ==
    /\ ~panicked
    /\ call' = "remove_entity_component"
    /\ IF T \notin DOMAIN component_bitmasks
       THEN /\ ret' = ComponentNotRegistered
            /\ UNCHANGED <<entity_component_bitmasks, panicked>>
       ELSE IF index \notin DOMAIN entity_component_bitmasks
            THEN \* has_component indexes entity_component_bitmasks out of bounds
                 /\ ret' = Panic
                 /\ panicked' = TRUE
                 /\ UNCHANGED entity_component_bitmasks
            ELSE /\ ret' = Ok
                 /\ entity_component_bitmasks' =
                        IF has_component(index, component_bitmasks[T])
                        THEN [entity_component_bitmasks EXCEPT
                                ![index] = BitXor(@, component_bitmasks[T])]
                        ELSE entity_component_bitmasks
                 /\ UNCHANGED panicked
    /\ query' = NoQuery
    /\ UNCHANGED <<components, component_bitmasks, next_free_entity_id>>

\* EntityStorage::add_component_to_entity(index, data)
add_component_to_entity(index, T, v) ==
    /\ ~panicked
    /\ call' = "add_component_to_entity"
    /\ IF T \notin DOMAIN component_bitmasks
       THEN /\ ret' = ComponentNotRegistered
            /\ UNCHANGED <<components, entity_component_bitmasks, panicked>>
       ELSE IF index \notin DOMAIN entity_component_bitmasks
            THEN \* entity_component_bitmasks[index] is out of bounds
                 /\ ret' = Panic
                 /\ panicked' = TRUE
                 /\ UNCHANGED <<components, entity_component_bitmasks>>
            ELSE /\ entity_component_bitmasks' =
                        [entity_component_bitmasks EXCEPT
                            ![index] = BitOr(@, component_bitmasks[T])]
                 /\ IF index \notin DOMAIN components[T]
                    THEN \* components[index] is out of bounds, after the mask is written
                         /\ ret' = Panic
                         /\ panicked' = TRUE
                         /\ UNCHANGED components
                    ELSE /\ components' = [components EXCEPT ![T][index] = Some(v)]
                         /\ ret' = Ok
                         /\ UNCHANGED panicked
    /\ query' = NoQuery
    /\ UNCHANGED <<component_bitmasks, next_free_entity_id>>

\* remove_entity without the bounds check of get_mut: Ok for every index
remove_entity_unchecked(index) ==
    /\ ~panicked
    /\ call' = "remove_entity"
    /\ entity_component_bitmasks' =
            [i \in DOMAIN entity_component_bitmasks |->
                IF i = index THEN Zero ELSE entity_component_bitmasks[i]]
    /\ ret' = Ok
    /\ query' = NoQuery
    /\ UNCHANGED <<components, component_bitmasks, next_free_entity_id, panicked>>

\* EntityStorage::remove_entity(index)
remove_entity(index) ==
    /\ ~panicked
    /\ call' = "remove_entity"
    /\ IF index \in DOMAIN entity_component_bitmasks
       THEN /\ entity_component_bitmasks' = [entity_component_bitmasks EXCEPT ![index] = Zero]
            /\ ret' = Ok
       ELSE /\ ret' = EntityDoesNotExist
            /\ UNCHANGED entity_component_bitmasks
    /\ query' = NoQuery
    /\ UNCHANGED <<components, component_bitmasks, next_free_entity_id, panicked>>

\* ------------------------------------------------------------------ Query
\* Query::new(entity_storage)
Query_new ==
    /\ ~panicked
    /\ call' = "Query::new"
    /\ ret' = Ok
    /\ query' = [live |-> TRUE, filter_mask |-> Zero, component_type_ids |-> EmptyVec]
    /\ UNCHANGED <<table, panicked>>

\* Query::with_component_filter::<T>()
with_component_filter(T) ==
    /\ ~panicked
    /\ query.live
    /\ VecLen(query.component_type_ids) < MaxFilter
    /\ call' = "with_component_filter"
    /\ IF get_bitmask(T) # None
       THEN /\ query' = [query EXCEPT
                            !.filter_mask = BitOr(@, component_bitmasks[T]),
                            !.component_type_ids = VecPush(@, T)]
            /\ ret' = Ok
       ELSE /\ ret' = ComponentNotRegistered
            /\ UNCHANGED query
    /\ UNCHANGED <<table, panicked>>

\* `!= 0` written for `== self.filter_mask`
MatchesAny(entity_map, filter_mask) == BitAnd(entity_map, filter_mask) # Zero

\* the filter_map closure of Query::run and Query::get_entities
Matches(entity_map, filter_mask) == BitAnd(entity_map, filter_mask) = filter_mask

\* the matches collected from the last row to the first
RECURSIVE MatchedEntityIdsRev(_, _, _)
MatchedEntityIdsRev(masks, filter_mask, n) ==
    IF n = 0 THEN EmptyVec
    ELSE LET matched == MatchedEntityIdsRev(masks, filter_mask, n - 1) IN
         IF Matches(masks[VecLen(masks) - n], filter_mask)
         THEN VecPush(matched, VecLen(masks) - n) ELSE matched

\* entity_component_bitmasks.iter().enumerate().filter_map(..).collect(),
\* over the first n rows
RECURSIVE MatchedEntityIds(_, _, _)
MatchedEntityIds(masks, filter_mask, n) ==
    IF n = 0 THEN EmptyVec
    ELSE LET matched == MatchedEntityIds(masks, filter_mask, n - 1) IN
         IF Matches(masks[n - 1], filter_mask) THEN VecPush(matched, n - 1) ELSE matched

\* entity_components[*index].as_ref().unwrap() does not panic
CanUnwrap(entity_components, index) ==
    index \in DOMAIN entity_components /\ entity_components[index] # None

\* Option::unwrap
Unwrap(slot) == CHOOSE v \in slot : TRUE

\* components_to_keep of Query::run for one filter type
ComponentsToKeep(entity_components, matched_entity_ids) ==
    [i \in DOMAIN matched_entity_ids |-> Unwrap(entity_components[matched_entity_ids[i]])]

\* Query::run()
run ==
    /\ ~panicked
    /\ query.live
    /\ call' = "run"
    /\ LET matched_entity_ids ==
               MatchedEntityIds(entity_component_bitmasks, query.filter_mask, NumRows)
           type_ids == query.component_type_ids
       IN IF \A k \in DOMAIN type_ids : \A i \in DOMAIN matched_entity_ids :
                 CanUnwrap(components[type_ids[k]], matched_entity_ids[i])
          THEN /\ ret' = [entity_ids |-> matched_entity_ids,
                          components |-> [k \in DOMAIN type_ids |->
                              ComponentsToKeep(components[type_ids[k]], matched_entity_ids)]]
               /\ UNCHANGED panicked
          ELSE /\ ret' = Panic
               /\ panicked' = TRUE
    /\ UNCHANGED <<table, query>>

\* -------------------------------------------------------- ResourceStorage
\* Box::new(data) for data of type T with payload v
Boxed(T, v) == [type |-> T, value |-> v]

\* Box<dyn Any>::downcast_ref::<T>() / downcast_mut::<T>()
Downcast(box, T) == IF box.type = T THEN Some(box.value) ELSE None

\* an insert that drops the other entries of the map
DataInsertOnly(map, T, box) == [x \in {T} |-> box]

\* self.data.insert(type_id, Box::new(data))
DataInsert(map, T, box) == [x \in DOMAIN map \cup {T} |-> IF x = T THEN box ELSE map[x]]

\* insert without the contains_key check
insert_unchecked(T, v) ==
    /\ ~panicked
    /\ call' = "insert"
    /\ data' = DataInsert(data, T, Boxed(T, v))
    /\ ret' = Ok
    /\ query' = NoQuery
    /\ UNCHANGED <<table, panicked>>

\* ResourceStorage::insert::<T>(data)
insert(T, v) ==
    /\ ~panicked
    /\ call' = "insert"
    /\ IF T \in DOMAIN data
       THEN /\ ret' = ResourceAlreadyRegistered
            /\ UNCHANGED data
       ELSE /\ data' = DataInsert(data, T, Boxed(T, v))
            /\ ret' = Ok
    /\ query' = NoQuery
    /\ UNCHANGED <<table, panicked>>

\* replace that keeps a value already present
replace_if_absent(T, v) ==
    /\ ~panicked
    /\ call' = "replace"
    /\ data' = IF T \in DOMAIN data THEN data ELSE DataInsert(data, T, Boxed(T, v))
    /\ ret' = Ok
    /\ query' = NoQuery
    /\ UNCHANGED <<table, panicked>>

\* ResourceStorage::replace::<T>(data)
replace(T, v) ==
    /\ ~panicked
    /\ call' = "replace"
    /\ data' = DataInsert(data, T, Boxed(T, v))
    /\ ret' = Ok
    /\ query' = NoQuery
    /\ UNCHANGED <<table, panicked>>

\* self.data.get(&type_id)?.downcast_ref(), as a value
Get(T) == IF T \in DOMAIN data THEN Downcast(data[T], T) ELSE None

\* ResourceStorage::get::<T>()
get(T) ==
    /\ ~panicked
    /\ call' = "get"
    /\ ret' = Get(T)
    /\ UNCHANGED <<table, query, data, panicked>>

\* ResourceStorage::get_mut::<T>(); the caller may write a value through
\* the reference it gets (written), before the reference ends
get_mut(T, written) ==
    /\ ~panicked
    /\ call' = "get_mut"
    /\ ret' = Get(T)
    /\ data' = IF Get(T) # None /\ written # None
               THEN [data EXCEPT ![T].value = Unwrap(written)]
               ELSE data
    /\ query' = NoQuery
    /\ UNCHANGED <<table, panicked>>

\* remove that reports the entry and leaves it in the map
remove_peek(T) ==
    /\ ~panicked
    /\ call' = "remove"
    /\ ret' = (T \in DOMAIN data)
    /\ query' = NoQuery
    /\ UNCHANGED <<table, data, panicked>>

\* ResourceStorage::remove::<T>()
remove(T) ==
    /\ ~panicked
    /\ call' = "remove"
    /\ ret' = (T \in DOMAIN data)
    /\ data' = [x \in DOMAIN data \ {T} |-> data[x]]
    /\ query' = NoQuery
    /\ UNCHANGED <<table, panicked>>

\* self.data.contains_key(&type_id)
Contains(T) == T \in DOMAIN data

\* ResourceStorage::contains::<T>()
contains(T) ==
    /\ ~panicked
    /\ call' = "contains"
    /\ ret' = Contains(T)
    /\ UNCHANGED <<table, query, data, panicked>>

\* ------------------------------------------------------------ QueryEntity
\* the accessors numbered by their position in the result
QueryEntityIdsRenumbered(masks, filter_mask, n) ==
    [i \in 0 .. Cardinality({r \in 0 .. n - 1 : Matches(masks[r], filter_mask)}) - 1 |-> i]

\* the ids of the accessors Query::get_entities collects over the first n rows
RECURSIVE QueryEntityIds(_, _, _)
QueryEntityIds(masks, filter_mask, n) ==
    IF n = 0 THEN EmptyVec
    ELSE LET entities == QueryEntityIds(masks, filter_mask, n - 1) IN
         IF BitAnd(masks[n - 1], filter_mask) = filter_mask
         THEN VecPush(entities, n - 1) ELSE entities

\* Query::get_entities()
get_entities ==
    /\ ~panicked
    /\ query.live
    /\ call' = "get_entities"
    /\ ret' = [ids |-> QueryEntityIds(entity_component_bitmasks, query.filter_mask, NumRows)]
    /\ UNCHANGED <<table, query, panicked>>

\* the accessors that can be alive: those of get_entities on the query that
\* borrows the table (a table operation or with_component_filter ends them)
Accessors ==
    LET entities == QueryEntityIds(entity_component_bitmasks, query.filter_mask, NumRows)
    IN {entities[i] : i \in DOMAIN entities}

\* QueryEntity::extract_components::<T>()
extract_components(T) == IF T \in DOMAIN components THEN Ok ELSE ComponentNotRegistered

\* ---------------------------------------------- Rc<RefCell<dyn Any>> cells
\* A cell is named by the slot that holds it, <<TRUE, row, type>>, or, once
\* the table has dropped or replaced it while a handle still shares it, by
\* <<FALSE, row, type>>.  A handle [row, type, orphan] has orphan = None
\* while its cell is the one in the slot and Some(v) when the cell lives on
\* outside the table with value v.  A view [slot, row, type, write, via] is
\* a Ref (write = FALSE) or RefMut (write = TRUE) on the cell
\* <<slot, row, type>>, taken through an accessor or through a handle.
\* One name per slot is enough for the cells outside the table as long as
\* the handles held share one cell per slot.
CellOf(w) == <<w.slot, w.row, w.type>>
SlotCell(r, T) == <<TRUE, r, T>>
HandleCell(h) == <<h.orphan = None, h.row, h.type>>
ViewsOn(cell) == {w \in DOMAIN views : CellOf(w) = cell}

\* borrow_mut that only looks for a writer
CanBorrowMutShared(cell) == \A w \in ViewsOn(cell) : ~w.write

\* RefCell::borrow_mut succeeds: no view on the cell
CanBorrowMut(cell) == ViewsOn(cell) = {}

\* RefCell::borrow succeeds: no RefMut on the cell
CanBorrow(cell) == \A w \in ViewsOn(cell) : ~w.write

\* the body shared by get_component (write = FALSE) and get_component_mut
\* (write = TRUE): the column of T, indexed at the accessor's id, then
\* borrow() or borrow_mut() on the cell
ComponentView(id, T, write) ==
    IF extract_components(T) # Ok
    THEN [err |-> ComponentNotRegistered, view |-> None]
    ELSE IF id \notin DOMAIN components[T]
         THEN [err |-> Panic, view |-> None]       \* components[self.id] out of bounds
    ELSE IF components[T][id] = None
         THEN [err |-> ComponentDoesNotExist, view |-> None]
    ELSE IF ~(IF write THEN CanBorrowMut(SlotCell(id, T)) ELSE CanBorrow(SlotCell(id, T)))
         THEN [err |-> Panic, view |-> None]       \* already borrowed
    ELSE [err |-> Ok, view |-> components[T][id]]

\* QueryEntity::get_component::<T>() on the accessor with this id
get_component(id, T) ==
    /\ ~panicked
    /\ query.live
    /\ id \in Accessors
    /\ call' = "get_component"
    /\ ret' = ComponentView(id, T, FALSE)
    /\ panicked' = (ComponentView(id, T, FALSE).err = Panic)
    /\ UNCHANGED <<table, query>>

\* QueryEntity::get_component_mut::<T>() on the accessor with this id
get_component_mut(id, T) ==
    /\ ~panicked
    /\ query.live
    /\ id \in Accessors
    /\ call' = "get_component_mut"
    /\ ret' = ComponentView(id, T, TRUE)
    /\ panicked' = (ComponentView(id, T, TRUE).err = Panic)
    /\ UNCHANGED <<table, query>>

\* ------------------------------------------------------ handles and views
\* the caller keeps the handle components[k][i] of the QueryResult that the
\* last call, run, returned
keep_handle(k, i) ==
    /\ ~panicked
    /\ call = "run"
    /\ Cardinality(handles) < MaxHandles
    /\ k \in DOMAIN ret.components
    /\ i \in DOMAIN ret.entity_ids
    /\ handles' = handles \cup {[row |-> ret.entity_ids[i],
                                 type |-> query.component_type_ids[k],
                                 orphan |-> None]}
    /\ call' = "keep_handle"
    /\ ret' = Ok
    /\ UNCHANGED <<table, query, panicked, data, views>>

\* the caller drops a handle that no view borrows
drop_handle(h) ==
    /\ ~panicked
    /\ h \in handles
    /\ \A w \in ViewsOn(HandleCell(h)) : w.via # "handle"
    /\ handles' = handles \ {h}
    /\ call' = "drop_handle"
    /\ ret' = Ok
    /\ UNCHANGED <<table, query, panicked, data, views>>

\* the value in the cell of a handle
HandleValue(h) == IF h.orphan = None THEN components[h.type][h.row] ELSE h.orphan

\* the view a borrow of a handle's cell gives
HandleView(h, write) ==
    [slot |-> h.orphan = None, row |-> h.row, type |-> h.type,
     write |-> write, via |-> "handle"]

\* the view a get_component / get_component_mut of an accessor gives
AccessorView(id, T, write) ==
    [slot |-> TRUE, row |-> id, type |-> T, write |-> write, via |-> "accessor"]

\* handle.borrow(): a Ref on the cell
borrow(h) ==
    /\ ~panicked
    /\ h \in handles
    /\ call' = "borrow"
    /\ IF CanBorrow(HandleCell(h))
       THEN /\ ret' = [err |-> Ok, view |-> HandleValue(h)]
            /\ views' = views (+) SetToBag({HandleView(h, FALSE)})
            /\ UNCHANGED panicked
       ELSE /\ ret' = [err |-> Panic, view |-> None]
            /\ panicked' = TRUE
            /\ UNCHANGED views
    /\ UNCHANGED <<table, query, data, handles>>

\* handle.borrow_mut(): a RefMut on the cell
borrow_mut(h) ==
    /\ ~panicked
    /\ h \in handles
    /\ call' = "borrow_mut"
    /\ IF CanBorrowMut(HandleCell(h))
       THEN /\ ret' = [err |-> Ok, view |-> HandleValue(h)]
            /\ views' = views (+) SetToBag({HandleView(h, TRUE)})
            /\ UNCHANGED panicked
       ELSE /\ ret' = [err |-> Panic, view |-> None]
            /\ panicked' = TRUE
            /\ UNCHANGED views
    /\ UNCHANGED <<table, query, data, handles>>

\* a write that pushes a new cell on the column
WriteCellPush(cols, r, T, v) == [cols EXCEPT ![T] = VecPush(@, Some(v))]

\* *view = v on the cell in slot (r, T)
WriteCell(cols, r, T, v) == [cols EXCEPT ![T][r] = Some(v)]

\* the caller writes v through a RefMut it holds
write(w, v) ==
    /\ ~panicked
    /\ w \in DOMAIN views
    /\ w.write
    /\ call' = "write"
    /\ ret' = Ok
    /\ IF w.slot
       THEN /\ components' = WriteCell(components, w.row, w.type, v)
            /\ UNCHANGED handles
       ELSE /\ handles' = {IF HandleCell(h) = CellOf(w) THEN [h EXCEPT !.orphan = Some(v)] ELSE h :
                                h \in handles}
            /\ UNCHANGED components
    /\ UNCHANGED <<component_bitmasks, entity_component_bitmasks, next_free_entity_id,
                   query, panicked, data, views>>

\* the caller drops a view
release(w) ==
    /\ ~panicked
    /\ w \in DOMAIN views
    /\ views' = views (-) SetToBag({w})
    /\ call' = "release"
    /\ ret' = Ok
    /\ UNCHANGED <<table, query, panicked, data, handles>>

\* ---------------------------------------------------------------- history
\* What a test harness around the calls would record.  Each specification
\* records one history variable (observe) and leaves the others untouched.
\* T, index and v are the arguments of the call that has just been made.
Returned(op, r) == call' = op /\ ret' = r

RegOrderNext(T) ==
    IF Returned("register_component", Ok) /\ \A k \in DOMAIN reg_order : reg_order[k] # T
    THEN Append(reg_order, T)
    ELSE reg_order

CarriedNext(T, index) ==
    IF call' = "create_entity" /\ NumRows' > NumRows THEN VecPush(carried, {})
    ELSE IF Returned("with_component", Ok)
         THEN [carried EXCEPT ![next_free_entity_id] = @ \cup {T}]
    ELSE IF Returned("add_component_to_entity", Ok)
         THEN [carried EXCEPT ![index] = @ \cup {T}]
    ELSE IF Returned("remove_entity_component", Ok)
         THEN [carried EXCEPT ![index] = @ \ {T}]
    ELSE IF Returned("remove_entity", Ok)
         THEN [carried EXCEPT ![index] = {}]
    ELSE carried

LifeNext(index) ==
    IF call' = "create_entity"
    THEN [removed |-> life.removed \ {next_free_entity_id'},
          reused |-> next_free_entity_id' \in life.removed]
    ELSE IF Returned("remove_entity", Ok)
         THEN [removed |-> life.removed \cup {index}, reused |-> FALSE]
    ELSE [life EXCEPT !.reused = FALSE]

ChainNext(T, v) ==
    IF call' = "create_entity" THEN [valid |-> TRUE, attached |-> <<>>]
    ELSE IF Returned("with_component", Ok) /\ chain.valid /\ Len(chain.attached) < MaxChain
         THEN [chain EXCEPT !.attached = Append(@, <<T, v>>)]
    ELSE IF call' \in {"Query::new", "with_component_filter", "run"} THEN chain
    ELSE NoChain

\* the non-empty slots of a row
SetSlots(r) ==
    {t \in DOMAIN components : r \in DOMAIN components[t] /\ components[t][r] # None}

\* The data a removed entity leaves in its row: remove_entity(r) leaves the
\* non-empty slots of r pending; when create_entity selects r they become
\* stale (data of the previous occupant of a reused row); a cell is cleared
\* when a component of its type is attached to the row again or when
\* register_component replaces the column.
StaleNext(T, index) ==
    IF call' = "create_entity"
    THEN [removed |-> {c \in stale.removed : c[1] # next_free_entity_id'},
          cells |-> stale.cells \cup {c \in stale.removed : c[1] = next_free_entity_id'}]
    ELSE IF Returned("remove_entity", Ok)
         THEN [removed |-> stale.removed \cup {<<index, t>> : t \in SetSlots(index)},
               cells |-> stale.cells]
    ELSE IF Returned("with_component", Ok)
         THEN [removed |-> stale.removed \ {<<next_free_entity_id, T>>},
               cells |-> stale.cells \ {<<next_free_entity_id, T>>}]
    ELSE IF Returned("add_component_to_entity", Ok)
         THEN [removed |-> stale.removed \ {<<index, T>>},
               cells |-> stale.cells \ {<<index, T>>}]
    ELSE IF call' = "register_component"
         THEN [removed |-> {c \in stale.removed : c[2] # T},
               cells |-> {c \in stale.cells : c[2] # T}]
    ELSE stale

\* f without c
MapRemove(f, c) == [x \in DOMAIN f \ {c} |-> f[x]]

\* the value last stored for (row, type) by an attach; a write through a
\* view is recorded by the write itself
StoredNext(T, index, v) ==
    IF Returned("with_component", Ok) THEN MapInsert(last_stored, <<next_free_entity_id, T>>, v)
    ELSE IF Returned("add_component_to_entity", Ok) THEN MapInsert(last_stored, <<index, T>>, v)
    ELSE last_stored

\* the value last written through a RefMut for (row, type), until a
\* component of that type is attached to the row
WrittenNext(T, index) ==
    IF Returned("with_component", Ok) THEN MapRemove(last_written, <<next_free_entity_id, T>>)
    ELSE IF Returned("add_component_to_entity", Ok) THEN MapRemove(last_written, <<index, T>>)
    ELSE last_written

\* the rows with a non-zero mask
LiveRows(row_masks) == {r \in DOMAIN row_masks : row_masks[r] # Zero}

\* the high-water mark of the rows with a non-zero mask
HwmNext ==
    IF Cardinality(LiveRows(entity_component_bitmasks')) > hwm
    THEN Cardinality(LiveRows(entity_component_bitmasks'))
    ELSE hwm

\* the row whose mask the call has taken from non-zero to zero, and whether
\* the create_entity that directly follows such a call selects that row
FreedNext ==
    IF \E r \in LiveRows(entity_component_bitmasks) : entity_component_bitmasks'[r] = Zero
    THEN [row |-> {r \in LiveRows(entity_component_bitmasks) : entity_component_bitmasks'[r] = Zero},
          by |-> call', reused |-> FALSE]
    ELSE IF call' = "create_entity" /\ freed.row # {} /\ call = freed.by
         THEN [freed EXCEPT !.reused = next_free_entity_id' \in freed.row]
    ELSE NoFreed

\* removed: the rows removed with remove_entity and not selected by
\* create_entity since; reused: the rows create_entity selected while they
\* were removed (an identifier of the previous occupant may still be used)
RecycledNext(index) ==
    IF Returned("remove_entity", Ok)
    THEN [recycled EXCEPT !.removed = @ \cup {index}]
    ELSE IF call' = "create_entity" /\ next_free_entity_id' \in recycled.removed
         THEN [removed |-> recycled.removed \ {next_free_entity_id'},
               reused |-> recycled.reused \cup {next_free_entity_id'}]
    ELSE recycled

Histories(T, index, v) ==
    /\ UNCHANGED observe
    /\ recycled' = IF observe = "recycled" THEN RecycledNext(index) ELSE recycled
    /\ hwm' = IF observe = "hwm" THEN HwmNext ELSE hwm
    /\ freed' = IF observe = "freed" THEN FreedNext ELSE freed
    /\ last_stored' = IF observe = "stored" THEN StoredNext(T, index, v) ELSE last_stored
    /\ last_written' = IF observe = "written" THEN WrittenNext(T, index) ELSE last_written
    /\ reg_order' = IF observe = "registration" THEN RegOrderNext(T) ELSE reg_order
    /\ carried' = IF observe = "carried" THEN CarriedNext(T, index) ELSE carried
    /\ life' = IF observe = "life" THEN LifeNext(index) ELSE life
    /\ chain' = IF observe = "chain" THEN ChainNext(T, v) ELSE chain
    /\ stale' = IF observe = "stale" THEN StaleNext(T, index) ELSE stale

\* the slots whose cell the call has taken out of the table:
\* register_component replaces the column of T by an empty one, and a
\* successful with_component / add_component_to_entity stores a new
\* Rc::new(RefCell::new(data)) in the slot
Dropped(T, index) ==
    IF call' = "register_component" THEN {<<r, T>> : r \in RowArgs}
    ELSE IF Returned("with_component", Ok) THEN {<<next_free_entity_id, T>>}
    ELSE IF Returned("add_component_to_entity", Ok) THEN {<<index, T>>}
    ELSE {}

\* the calls that leave the accessors of get_entities and their views alive
KeepsAccessors == {"run", "get_entities", "get_component", "get_component_mut"}

\* a handle whose cell left the table keeps the cell, with the value it had
HandlesNext(T, index) ==
    {IF h.orphan = None /\ <<h.row, h.type>> \in Dropped(T, index)
     THEN [h EXCEPT !.orphan = components[h.type][h.row]]
     ELSE h : h \in handles}

\* the view after the call: a view of a cell that left the table stays on
\* that cell
ViewAfter(w, T, index) ==
    IF w.slot /\ <<w.row, w.type>> \in Dropped(T, index) THEN [w EXCEPT !.slot = FALSE] ELSE w

\* the views after a call: the views taken through an accessor end with
\* the accessor (its borrow of the query ends before the table is changed
\* or the query is rebuilt)
ViewsNext(T, index) ==
    LET kept == {w \in DOMAIN views : w.via = "handle" \/ call' \in KeepsAccessors}
        copies == {c \in kept \X (1 .. MaxViews) : c[2] <= views[c[1]]}
    IN [x \in {ViewAfter(w, T, index) : w \in kept} |->
            Cardinality({c \in copies : ViewAfter(c[1], T, index) = x})]

\* what the call leaves of the handles and views the caller holds
Caller(T, index) ==
    /\ handles' = HandlesNext(T, index)
    /\ views' = ViewsNext(T, index)

\* what a call on the entity table or on a query leaves alone besides
Observer(T, index, v) ==
    /\ Histories(T, index, v)
    /\ Caller(T, index)
    /\ UNCHANGED data

\* get_component / get_component_mut whose view the caller keeps
Holding(T, id, mutable) ==
    /\ Histories(T, id, 0)
    /\ UNCHANGED <<data, handles>>
    /\ views' = IF ret'.err = Ok
                THEN views (+) SetToBag({AccessorView(id, T, mutable)})
                ELSE views

\* the histories over a step of the caller on a handle or a view
Held ==
    UNCHANGED <<observe, reg_order, carried, life, chain, stale, last_stored, last_written,
                hwm, freed, recycled>>

\* the histories over a write of v through the view w
Writing(w, v) ==
    /\ UNCHANGED <<observe, reg_order, carried, life, chain, stale, hwm, freed, recycled>>
    /\ last_stored' = IF observe = "stored" /\ w.slot
                 THEN MapInsert(last_stored, <<w.row, w.type>>, v) ELSE last_stored
    /\ last_written' = IF observe = "written"
                  THEN MapInsert(last_written, <<w.row, w.type>>, v) ELSE last_written

\* ---------------------------------------------------------- specifications
\* the table operations
Next ==
    \/ \E T \in Types : register_component(T) /\ Observer(T, 0, 0)
    \/ create_entity /\ Observer(0, 0, 0)
    \/ \E T \in Types, v \in Values : with_component(T, v) /\ Observer(T, 0, v)
    \/ \E T \in Types, index \in RowArgs :
            remove_entity_component(T, index) /\ Observer(T, index, 0)
    \/ \E T \in Types, index \in RowArgs, v \in Values :
            add_component_to_entity(index, T, v) /\ Observer(T, index, v)
    \/ \E index \in RowArgs : remove_entity(index) /\ Observer(0, index, 0)

\* the table operations with a single payload: which rows were given to a
\* new entity does not depend on the data
NextOne ==
    \/ \E T \in Types : register_component(T) /\ Observer(T, 0, 0)
    \/ create_entity /\ Observer(0, 0, 0)
    \/ \E T \in Types : with_component(T, 1) /\ Observer(T, 0, 1)
    \/ \E T \in Types, index \in RowArgs :
            remove_entity_component(T, index) /\ Observer(T, index, 0)
    \/ \E T \in Types, index \in RowArgs :
            add_component_to_entity(index, T, 1) /\ Observer(T, index, 1)
    \/ \E index \in RowArgs : remove_entity(index) /\ Observer(0, index, 0)

\* the table operations and the queries
NextQ ==
    \/ Next
    \/ Query_new /\ Observer(0, 0, 0)
    \/ \E T \in Types : with_component_filter(T) /\ Observer(T, 0, 0)
    \/ run /\ Observer(0, 0, 0)

\* the table operations with a single payload and the queries: which rows a
\* query matches does not depend on the data
NextQOne ==
    \/ NextOne
    \/ Query_new /\ Observer(0, 0, 0)
    \/ \E T \in Types : with_component_filter(T) /\ Observer(T, 0, 0)
    \/ run /\ Observer(0, 0, 0)

\* the table operations (single payload), the queries and the accessors
NextE ==
    \/ NextQOne
    \/ get_entities /\ Observer(0, 0, 0)
    \/ \E id \in RowArgs, T \in Types : get_component(id, T) /\ Observer(T, id, 0)
    \/ \E id \in RowArgs, T \in Types : get_component_mut(id, T) /\ Observer(T, id, 0)

\* the same operations with a single payload, over tables of MaxHeldRows
\* rows: the stale history records which cells hold data of a removed
\* entity, not the data
NextStale ==
    \/ \E T \in Types : register_component(T) /\ Observer(T, 0, 0)
    \/ /\ NumRows < MaxHeldRows \/ FreeRows(entity_component_bitmasks) # {}
       /\ create_entity /\ Observer(0, 0, 0)
    \/ \E T \in Types : with_component(T, 1) /\ Observer(T, 0, 1)
    \/ \E T \in Types, index \in RowArgs :
            remove_entity_component(T, index) /\ Observer(T, index, 0)
    \/ \E T \in Types, index \in RowArgs :
            add_component_to_entity(index, T, 1) /\ Observer(T, index, 1)
    \/ \E index \in RowArgs : remove_entity(index) /\ Observer(0, index, 0)
    \/ Query_new /\ Observer(0, 0, 0)
    \/ \E T \in Types : with_component_filter(T) /\ Observer(T, 0, 0)
    \/ run /\ Observer(0, 0, 0)
    \/ get_entities /\ Observer(0, 0, 0)
    \/ \E id \in RowArgs, T \in Types : get_component(id, T) /\ Observer(T, id, 0)
    \/ \E id \in RowArgs, T \in Types : get_component_mut(id, T) /\ Observer(T, id, 0)

\* the written values a caller may send through get_mut
Writes == {None} \cup {Some(v) : v \in Values}

\* the resource operations
\* what a resource operation leaves alone besides
Resources(T, v) == Histories(T, 0, v) /\ UNCHANGED <<handles, views>>

NextR ==
    \/ \E T \in Types, v \in Values : insert(T, v) /\ Resources(T, v)
    \/ \E T \in Types, v \in Values : replace(T, v) /\ Resources(T, v)
    \/ \E T \in Types : get(T) /\ Resources(T, 0)
    \/ \E T \in Types, written \in Writes : get_mut(T, written) /\ Resources(T, 0)
    \/ \E T \in Types : remove(T) /\ Resources(T, 0)
    \/ \E T \in Types : contains(T) /\ Resources(T, 0)

\* the World: the resource operations and the table operations, the latter
\* with a single payload over tables of MaxHeldRows rows
NextW ==
    \/ NextR
    \/ \E T \in Types : register_component(T) /\ Observer(T, 0, 0)
    \/ /\ NumRows < MaxHeldRows \/ FreeRows(entity_component_bitmasks) # {}
       /\ create_entity /\ Observer(0, 0, 0)
    \/ \E T \in Types : with_component(T, 1) /\ Observer(T, 0, 1)
    \/ \E T \in Types, index \in RowArgs :
            remove_entity_component(T, index) /\ Observer(T, index, 0)
    \/ \E T \in Types, index \in RowArgs :
            add_component_to_entity(index, T, 1) /\ Observer(T, index, 1)
    \/ \E index \in RowArgs : remove_entity(index) /\ Observer(0, index, 0)

\* the payloads written through a view: the ones no attach of NextV stores
Written == Values \ {1}

\* The caller's handles and views over tables of MaxHeldRows rows and queries
\* of MaxHeldFilter filter types: the operations that store or drop cells
\* (single payload), the queries, the
\* accessors, whose views the caller keeps until it releases them, and the
\* handles.  remove_entity_component and remove_entity touch masks only and
\* are followed in the other specifications.
NextV ==
    \/ \E T \in Types : register_component(T) /\ Observer(T, 0, 0)
    \/ NumRows < MaxHeldRows /\ create_entity /\ Observer(0, 0, 0)
    \/ \E T \in Types : with_component(T, 1) /\ Observer(T, 0, 1)
    \/ \E T \in Types, index \in RowArgs :
            add_component_to_entity(index, T, 1) /\ Observer(T, index, 1)
    \/ Query_new /\ Observer(0, 0, 0)
    \/ \E T \in Types :
            /\ VecLen(query.component_type_ids) < MaxHeldFilter
            /\ with_component_filter(T) /\ Observer(T, 0, 0)
    \/ run /\ Observer(0, 0, 0)
    \/ get_entities /\ Observer(0, 0, 0)
    \/ \E id \in RowArgs, T \in Types :
            get_component(id, T) /\ Holding(T, id, FALSE) /\ BagCardinality(views') <= MaxViews
    \/ \E id \in RowArgs, T \in Types :
            get_component_mut(id, T) /\ Holding(T, id, TRUE) /\ BagCardinality(views') <= MaxViews
    \/ \E k \in 0 .. MaxFilter, i \in 0 .. MaxRows : keep_handle(k, i) /\ Held
    \/ \E h \in handles : drop_handle(h) /\ Held
    \/ \E h \in handles : borrow(h) /\ Held /\ BagCardinality(views') <= MaxViews
    \/ \E h \in handles : borrow_mut(h) /\ Held /\ BagCardinality(views') <= MaxViews
    \/ \E w \in DOMAIN views, v \in Written : write(w, v) /\ Writing(w, v)
    \/ \E w \in DOMAIN views : release(w) /\ Held

\* the registrations around the width of the mask: the types the caller
\* registers when MaskWidth + 1 - WideWindow types are registered already
WideTypes == (MaskWidth + 2 - WideWindow) .. (MaskWidth + 1)

\* the table after register_component for each of the types
\* 1 .. MaskWidth + 1 - WideWindow, in this order, on the default table
InitWide ==
    /\ components = [t \in 1 .. (MaskWidth + 1 - WideWindow) |-> EmptyVec]
    /\ component_bitmasks = [t \in 1 .. (MaskWidth + 1 - WideWindow) |-> {t - 1}]
    /\ entity_component_bitmasks = [i \in {} |-> Zero]
    /\ next_free_entity_id = 0
    /\ query = NoQuery
    /\ panicked = FALSE
    /\ call = "register_component"
    /\ ret = Ok
    /\ data = [t \in {} |-> None]
    /\ handles = {}
    /\ views = EmptyBag
    /\ last_stored = [c \in {} |-> 0]
    /\ last_written = [c \in {} |-> 0]
    /\ observe = "none"
    /\ reg_order = <<>>
    /\ carried = [i \in {} |-> {}]
    /\ life = [removed |-> {}, reused |-> FALSE]
    /\ chain = NoChain
    /\ stale = NoStale
    /\ hwm = 0
    /\ freed = NoFreed
    /\ recycled = NoRecycled

NextWide == \E T \in WideTypes : register_component(T) /\ Observer(T, 0, 0)

InitNone == Init /\ observe = "none"
InitStored == Init /\ observe = "stored"
InitWritten == Init /\ observe = "written"
InitRegistration == Init /\ observe = "registration"
InitCarried == Init /\ observe = "carried"
InitLife == Init /\ observe = "life"
InitChain == Init /\ observe = "chain"
InitStale == Init /\ observe = "stale"
InitHwm == Init /\ observe = "hwm"
InitFreed == Init /\ observe = "freed"
InitRecycled == Init /\ observe = "recycled"

Spec == InitNone /\ [][Next]_vars
SpecRegistration == InitRegistration /\ [][Next]_vars
SpecLife == InitLife /\ [][Next]_vars
SpecChain == InitChain /\ [][Next]_vars
SpecQ == InitNone /\ [][NextQ]_vars
SpecQCarried == InitCarried /\ [][NextQOne]_vars
SpecE == InitNone /\ [][NextE]_vars
SpecStale == InitStale /\ [][NextStale]_vars
SpecW == InitNone /\ [][NextW]_vars
SpecHwm == InitHwm /\ [][Next]_vars
SpecFreed == InitFreed /\ [][Next]_vars
SpecRecycled == InitRecycled /\ [][NextOne]_vars
SpecWide == InitWide /\ [][NextWide]_vars
SpecV == InitNone /\ [][NextV]_vars
SpecVStored == InitStored /\ [][NextV]_vars
SpecVWritten == InitWritten /\ [][NextV]_vars

\* ------------------------------------------------------------------ claims
cursor == next_free_entity_id
masks == entity_component_bitmasks
HasBit(r, T) == BitAnd(masks[r], component_bitmasks[T]) = component_bitmasks[T]
VecRange(vec) == {vec[i] : i \in DOMAIN vec}

\* C1: in every state the calls reach without a panic, a row whose mask has
\* the bit of a registered type T has a non-empty slot in T's column.
C1_BitImpliesSlot ==
    ~panicked =>
        \A r \in Rows : \A T \in DOMAIN component_bitmasks :
            HasBit(r, T) => r \in DOMAIN components[T] /\ components[T][r] # None

\* C2: every registered column is as long as the bitmask vector.
C2_ColumnsEqualRows ==
    \A T \in DOMAIN components : VecLen(components[T]) = NumRows

\* C3: two distinct registered types have different mask bits and every
\* assigned mask has exactly one bit set.
C3_UniqueOneBitMasks ==
    /\ \A T \in DOMAIN component_bitmasks : Cardinality(component_bitmasks[T]) = 1
    /\ \A T1, T2 \in DOMAIN component_bitmasks :
            T1 # T2 => component_bitmasks[T1] # component_bitmasks[T2]

\* C4: get_bitmask of the k-th (0-indexed) distinct type registered is 1 << k.
C4_KthTypeBit ==
    \A k \in DOMAIN reg_order : get_bitmask(reg_order[k]) = Some({k - 1})

\* C5: the rows Query::run returns are exactly the rows that carry every
\* type of the filter (attached, not detached since, row not deleted since).
C5_RunReturnsCarriers ==
    (call = "run" /\ ~panicked) =>
        VecRange(ret.entity_ids) =
            {r \in Rows : VecRange(query.component_type_ids) \subseteq carried[r]}

\* C6: a result of Query::run has strictly ascending entity_ids, one entry
\* of components per filter type in filter order, each as long as
\* entity_ids, and components[k][i] is the cell of the k-th filter type at
\* row entity_ids[i].
C6_RunResultAligned ==
    (call = "run" /\ ~panicked) =>
        LET ids == ret.entity_ids
            type_ids == query.component_type_ids
        IN /\ \A i, j \in DOMAIN ids : i < j => ids[i] < ids[j]
           /\ DOMAIN ret.components = DOMAIN type_ids
           /\ \A k \in DOMAIN type_ids :
                /\ DOMAIN ret.components[k] = DOMAIN ids
                /\ \A i \in DOMAIN ids :
                        /\ ids[i] \in DOMAIN components[type_ids[k]]
                        /\ components[type_ids[k]][ids[i]] = Some(ret.components[k][i])

C6_Witness ==
    /\ call = "run" /\ ~panicked
    /\ VecLen(ret.entity_ids) = 2
    /\ VecLen(ret.components) = 2
    /\ ret.components[0] # ret.components[1]

\* C7: create_entity sets the cursor to the lowest row with a zero mask and
\* changes neither the rows nor the columns when such a row exists;
\* otherwise it appends mask 0 and one empty slot to every registered
\* column and sets the cursor to the new last index.
C7_CreateEntityPolicy ==
    [][call' = "create_entity" =>
        IF \E r \in Rows : masks[r] = Zero
        THEN /\ masks[cursor'] = Zero
             /\ \A r \in Rows : masks[r] = Zero => cursor' <= r
             /\ masks' = masks
             /\ components' = components
        ELSE /\ masks' = VecPush(masks, Zero)
             /\ NumRows' = NumRows + 1
             /\ DOMAIN components' = DOMAIN components
             /\ \A T \in DOMAIN components : components'[T] = VecPush(components[T], None)
             /\ cursor' = NumRows' - 1
      ]_vars

C7_Witness ==
    /\ call = "create_entity"
    /\ NumRows = 2
    /\ cursor = 0
    /\ masks[1] # Zero
    /\ \E T \in DOMAIN components : VecLen(components[T]) = 2

\* a bit that a step sets in the mask of row r is the bit of a type that
\* the step attaches to r
SetOnlyByAttach ==
    \A r \in Rows : \A b \in masks'[r] \ masks[r] :
        \E T \in Types :
            /\ T \in DOMAIN component_bitmasks
            /\ b \in component_bitmasks[T]
            /\ \/ call' = "with_component" /\ r = cursor
               \/ call' = "add_component_to_entity"

\* C8, as stated: after remove_entity(r) a create_entity reuses r before any
\* create_entity appends a row; r is reused with mask 0, and a bit gets set
\* in a mask only by attaching a type with that bit.
C8_ReuseBeforeAppend ==
    [][/\ (call' = "create_entity" /\ NumRows' > NumRows) => life.removed = {}
       /\ (call' = "create_entity" /\ cursor' \in life.removed) => masks'[cursor'] = Zero
       /\ SetOnlyByAttach
      ]_vars

\* C8, amended: while the mask of a removed row r is still 0 no
\* create_entity appends a row, each create_entity then selects the lowest
\* row with mask 0 (r when r is that row); r is reused with mask 0, and a
\* bit gets set in a mask only by attaching a type with that bit.
C8_NoAppendWhileFreed ==
    [][/\ (call' = "create_entity" /\ NumRows' > NumRows) =>
                \A r \in life.removed : masks[r] # Zero
       /\ (call' = "create_entity" /\ \E r \in life.removed : masks[r] = Zero) =>
                /\ masks[cursor'] = Zero
                /\ \A r \in life.removed : masks[r] = Zero => cursor' <= r
                /\ NumRows' = NumRows
       /\ (call' = "create_entity" /\ cursor' \in life.removed) => masks'[cursor'] = Zero
       /\ SetOnlyByAttach
      ]_vars

C8_Witness ==
    /\ call = "create_entity"
    /\ life.reused
    /\ NumRows = 2
    /\ cursor = 1
    /\ masks[0] # Zero

\* the mask bits of the types of a chain of with_component calls
ChainMask(attached) ==
    UNION {component_bitmasks[attached[k][1]] : k \in DOMAIN attached}

\* C9: after create_entity followed by successful with_component calls the
\* mask of the cursor row is the OR of the masks of the attached types and
\* their slots at that row hold the attached values; with_component leaves
\* the masks of the other rows unchanged; a create_entity that finds no free
\* row selects an index above the one selected before.
C9_ChainMask ==
    /\ [](chain.valid =>
            /\ cursor \in Rows
            /\ masks[cursor] = ChainMask(chain.attached)
            /\ \A k \in DOMAIN chain.attached :
                  (\A k2 \in DOMAIN chain.attached :
                        k2 > k => chain.attached[k2][1] # chain.attached[k][1])
                  => components[chain.attached[k][1]][cursor] = Some(chain.attached[k][2]))
    /\ [][/\ call' = "with_component" =>
                \A r \in Rows \ {cursor} : masks'[r] = masks[r]
          /\ (call' = "create_entity" /\ NumRows > 0 /\ \A r \in Rows : masks[r] # Zero) =>
                cursor' > cursor
         ]_vars

C9_Witness ==
    /\ chain.valid
    /\ Len(chain.attached) = 2
    /\ chain.attached[1][1] # chain.attached[2][1]
    /\ cursor = 1
    /\ masks[0] # Zero
    /\ masks[0] # masks[1]

\* C10: with_component returns ComponentNotRegistered for a type never
\* registered and CreateComponentNeverCalled for a registered type when
\* the cursor is not an allocated row; a failing call leaves the masks, the
\* columns and the cursor unchanged.
C10_WithComponentErrors ==
    [][\A T \in Types, v \in Values :
        with_component(T, v) =>
            /\ T \notin DOMAIN component_bitmasks => ret' = ComponentNotRegistered
            /\ (T \in DOMAIN component_bitmasks /\ cursor \notin Rows) =>
                    ret' = CreateComponentNeverCalled
            /\ ret' \in {ComponentNotRegistered, CreateComponentNeverCalled} =>
                    UNCHANGED <<components, component_bitmasks, masks, cursor>>
      ]_vars

C10_Witness ==
    /\ call = "with_component"
    /\ ret = CreateComponentNeverCalled
    /\ NumRows = 0
    /\ DOMAIN component_bitmasks # {}

\* C11: once create_entity has been called (the table has a row) a
\* with_component of a registered type succeeds, whatever the order of the
\* register_component and create_entity calls; CreateComponentNeverCalled is
\* returned only while no row was allocated.
C11_AttachSucceedsAfterCreate ==
    [][\A T \in Types, v \in Values :
        with_component(T, v) =>
            /\ (NumRows > 0 /\ T \in DOMAIN component_bitmasks) => ret' = Ok
            /\ ret' = CreateComponentNeverCalled => NumRows = 0
      ]_vars

\* the rows selected by a create_entity and not removed with remove_entity since
LiveEntities == Rows \ life.removed

\* C12: the row create_entity selects is different from every row selected
\* by an earlier create_entity whose entity was not removed since.
C12_CreateEntityFreshRow ==
    [][call' = "create_entity" => cursor' \notin LiveEntities]_vars

\* C13: remove_entity_component::<T>(r) on an allocated row r returns
\* ComponentNotRegistered and changes nothing when T is unregistered;
\* otherwise it returns Ok, the new mask of r is the old one without T's bit,
\* the other rows' masks, the cursor and every slot are unchanged, and T's
\* bit is clear afterwards, so that a second call leaves the mask unchanged.
C13_DetachClearsBit ==
    [][\A T \in Types, r \in Rows :
        remove_entity_component(T, r) =>
            /\ UNCHANGED <<components, component_bitmasks, cursor>>
            /\ DOMAIN masks' = DOMAIN masks
            /\ IF T \notin DOMAIN component_bitmasks
               THEN /\ ret' = ComponentNotRegistered
                    /\ masks' = masks
               ELSE /\ ret' = Ok
                    /\ masks'[r] = masks[r] \ component_bitmasks[T]
                    /\ \A r2 \in Rows \ {r} : masks'[r2] = masks[r2]
                    /\ masks'[r] \cap component_bitmasks[T] = {}
                    /\ masks[r] \cap component_bitmasks[T] = {} => masks' = masks
      ]_vars

C13_Witness ==
    /\ call = "remove_entity_component"
    /\ ret = Ok
    /\ \E r \in Rows : \E T \in DOMAIN component_bitmasks :
          /\ masks[r] # Zero
          /\ masks[r] \cap component_bitmasks[T] = {}
          /\ r \in DOMAIN components[T]
          /\ components[T][r] # None

\* C14: remove_entity(r) on an allocated row returns Ok and sets the mask of
\* r to 0, leaving the other masks, the number of rows, the slots and the
\* cursor unchanged; on a row outside the allocated rows it returns
\* EntityDoesNotExist and leaves the table unchanged.
C14_RemoveEntity ==
    [][\A index \in RowArgs :
        remove_entity(index) =>
            /\ UNCHANGED <<components, component_bitmasks, cursor>>
            /\ IF index \in Rows
               THEN /\ ret' = Ok
                    /\ masks' = [masks EXCEPT ![index] = Zero]
               ELSE /\ ret' = EntityDoesNotExist
                    /\ masks' = masks
      ]_vars

C14_Witness ==
    /\ call = "remove_entity"
    /\ ret = Ok
    /\ NumRows = 2
    /\ masks[0] = Zero
    /\ masks[1] # Zero
    /\ \E T \in DOMAIN components : 0 \in DOMAIN components[T] /\ components[T][0] # None

\* C15: remove_entity returns an error when the entity does not exist: an
\* index outside the allocated rows, or a row already removed (mask 0).
C15_RemoveMissingEntityFails ==
    [][\A index \in RowArgs :
        (/\ remove_entity(index)
         /\ \/ index \notin Rows
            \/ index \in life.removed /\ masks[index] = Zero)
        => ret' = EntityDoesNotExist
      ]_vars

\* C16: add_component_to_entity and remove_entity_component of a registered
\* type on a row index outside the allocated rows return EntityDoesNotExist
\* and leave the masks, the columns and the cursor unchanged.
C16_OutOfRangeRowFails ==
    [][\A index \in RowArgs \ Rows : \A T \in DOMAIN component_bitmasks :
        /\ \A v \in Values :
              add_component_to_entity(index, T, v) =>
                  /\ ret' = EntityDoesNotExist
                  /\ UNCHANGED <<components, masks, cursor>>
        /\ remove_entity_component(T, index) =>
              /\ ret' = EntityDoesNotExist
              /\ UNCHANGED <<components, masks, cursor>>
      ]_vars

\* C17: add_component_to_entity(r, v) on an allocated row r returns
\* ComponentNotRegistered and changes nothing when the type is unregistered;
\* otherwise it stores v in the type's column at r and sets the type's bit
\* in the mask of r, leaving the cursor, the other masks and the other slots
\* unchanged, and a query filtered on the type matches r afterwards.
C17_AttachToRow ==
    [][\A r \in Rows, T \in Types, v \in Values :
        add_component_to_entity(r, T, v) =>
            /\ UNCHANGED <<cursor, component_bitmasks>>
            /\ IF T \notin DOMAIN component_bitmasks
               THEN /\ ret' = ComponentNotRegistered
                    /\ UNCHANGED <<components, masks>>
               ELSE /\ ret' = Ok
                    /\ r \in DOMAIN components[T]
                    /\ components' = [components EXCEPT ![T][r] = {v}]
                    /\ masks' = [masks EXCEPT ![r] = @ \cup component_bitmasks[T]]
                    /\ masks'[r] \cap component_bitmasks[T] = component_bitmasks[T]
      ]_vars

\* the slot of type T at row r is unset
SlotUnset(r, T) == components[T][r] = None

\* C18: on an accessor of an allocated row, get_component and
\* get_component_mut return ComponentNotRegistered for a type never
\* registered, ComponentDoesNotExist when the type's bit is clear in the
\* row's mask or the slot is unset, and a view only when the row carries
\* the type (stated for the rows that have a slot in the type's column).
C18_AccessorErrors ==
    [][\A id \in RowArgs, T \in Types :
        (get_component(id, T) \/ get_component_mut(id, T)) =>
            IF T \notin DOMAIN component_bitmasks
            THEN ret'.err = ComponentNotRegistered
            ELSE id \in DOMAIN components[T] =>
                    /\ (~HasBit(id, T) \/ SlotUnset(id, T)) =>
                            ret'.err = ComponentDoesNotExist
                    /\ ret'.err = Ok => HasBit(id, T) /\ ~SlotUnset(id, T)
      ]_vars

\* C19: after remove_entity(r) and the reuse of r by create_entity, no value
\* attached to the previous occupant of r is returned by Query::run or by
\* get_component / get_component_mut on an accessor, unless a component of
\* that type was attached to r again since.
C19_NoStaleData ==
    [][/\ \A id \in RowArgs, T \in Types :
            (get_component(id, T) \/ get_component_mut(id, T)) =>
                (ret'.err = Ok => <<id, T>> \notin stale.cells)
       /\ (run /\ ~panicked') =>
            \A k \in DOMAIN query.component_type_ids : \A i \in DOMAIN ret'.entity_ids :
                <<ret'.entity_ids[i], query.component_type_ids[k]>> \notin stale.cells
      ]_vars

\* C20: Query::get_entities returns one accessor per row matched by the
\* rule of Query::run, in ascending row order: the accessor ids are the
\* matched_entity_ids that run computes for the same query and table.
C20_GetEntitiesAsRun ==
    call = "get_entities" =>
        /\ \A i, j \in DOMAIN ret.ids : i < j => ret.ids[i] < ret.ids[j]
        /\ VecRange(ret.ids) =
                {r \in Rows : masks[r] \cap query.filter_mask = query.filter_mask}
        /\ ret.ids = MatchedEntityIds(masks, query.filter_mask, NumRows)

C20_Witness ==
    /\ call = "get_entities"
    /\ NumRows = 2
    /\ masks[0] = Zero
    /\ query.filter_mask # Zero
    /\ VecLen(ret.ids) = 1
    /\ ret.ids[0] = 1

\* the live views of one kind (Ref: write = FALSE, RefMut: write = TRUE) on a cell
LiveViews(cell, mutable) ==
    BagCardinality([w \in {x \in DOMAIN views : CellOf(x) = cell /\ x.write = mutable} |->
                        views[w]])

\* no RefMut is live on the cell in slot (r, T)
NoWriter(r, T) == LiveViews(<<TRUE, r, T>>, TRUE) = 0

\* C21: on an accessor of row r, for a registered type T that r carries (in
\* the filter or not), get_component::<T> returns a view of the value most
\* recently stored for (r, T), by an attach or by a write through a RefMut
\* (stated for the calls made while no RefMut on the cell is alive).
C21_ReadsLastStored ==
    [][\A id \in RowArgs, T \in Types :
        (/\ get_component(id, T)
         /\ T \in DOMAIN component_bitmasks
         /\ HasBit(id, T)
         /\ NoWriter(id, T)) =>
            /\ ret'.err = Ok
            /\ <<id, T>> \in DOMAIN last_stored
            /\ ret'.view = {last_stored[<<id, T>>]}
      ]_vars

\* C22: every cell has any number of Refs and no RefMut, or one RefMut and
\* no Ref; an acquisition (get_component, get_component_mut, borrow,
\* borrow_mut) on a cell that would break this panics, grants no view and
\* changes no value, and one that would not is granted.
C22_BorrowDiscipline ==
    /\ [](\A w \in DOMAIN views :
            \/ LiveViews(CellOf(w), TRUE) = 0
            \/ LiveViews(CellOf(w), TRUE) = 1 /\ LiveViews(CellOf(w), FALSE) = 0)
    /\ [][/\ \A id \in RowArgs, T \in Types, mutable \in BOOLEAN :
                (/\ call' = (IF mutable THEN "get_component_mut" ELSE "get_component")
                 /\ IF mutable THEN get_component_mut(id, T) ELSE get_component(id, T)
                 /\ T \in DOMAIN components
                 /\ id \in DOMAIN components[T]
                 /\ components[T][id] # None) =>
                    IF \/ LiveViews(<<TRUE, id, T>>, TRUE) > 0
                       \/ mutable /\ LiveViews(<<TRUE, id, T>>, FALSE) > 0
                    THEN /\ ret'.err = Panic /\ panicked'
                         /\ views' = views /\ components' = components /\ handles' = handles
                    ELSE /\ ret'.err = Ok
                         /\ ret'.view = components[T][id]
                         /\ components' = components
          /\ \A h \in handles, mutable \in BOOLEAN :
                (/\ call' = (IF mutable THEN "borrow_mut" ELSE "borrow")
                 /\ IF mutable THEN borrow_mut(h) ELSE borrow(h)) =>
                    IF \/ LiveViews(<<h.orphan = None, h.row, h.type>>, TRUE) > 0
                       \/ mutable /\ LiveViews(<<h.orphan = None, h.row, h.type>>, FALSE) > 0
                    THEN /\ ret'.err = Panic /\ panicked'
                         /\ views' = views /\ components' = components /\ handles' = handles
                    ELSE /\ ret'.err = Ok
                         /\ BagCardinality(views') = BagCardinality(views) + 1
                         /\ components' = components /\ handles' = handles
         ]_vars

\* two Refs taken through an accessor are alive on a cell and borrow_mut on
\* a handle of that cell has panicked
C22_Witness ==
    /\ panicked
    /\ call = "borrow_mut"
    /\ \E h \in handles :
            LiveViews(<<h.orphan = None, h.row, h.type>>, FALSE) = 2

\* C23: a value written through a RefMut for (r, T) (taken with
\* get_component_mut or with borrow_mut on a handle of Query::run) is the
\* value that every later get_component::<T> on r and every later
\* QueryResult gives for (r, T), until a component of type T is attached
\* to r (stated for the get_component calls made while no RefMut on the
\* cell is alive).
C23_WriteObserved ==
    [][/\ \A id \in RowArgs, T \in Types :
            (/\ get_component(id, T)
             /\ <<id, T>> \in DOMAIN last_written
             /\ NoWriter(id, T)) =>
                /\ ret'.err = Ok
                /\ ret'.view = {last_written[<<id, T>>]}
       /\ (call' = "run" /\ ~panicked') =>
            \A k \in DOMAIN query.component_type_ids : \A i \in DOMAIN ret'.entity_ids :
                <<ret'.entity_ids[i], query.component_type_ids[k]>> \in DOMAIN last_written =>
                    ret'.components[k][i] =
                        last_written[<<ret'.entity_ids[i], query.component_type_ids[k]>>]
      ]_vars

\* C24: a cell reached through a handle of Query::run is the cell stored in
\* the handle's (row, type) slot, also after with_component or
\* add_component_to_entity attaches a value of the type to the row while
\* the handle is held.
C24_HandleIsSlotCell ==
    [][call' \in {"with_component", "add_component_to_entity"} =>
            \A h \in handles : h.orphan = None => h \in handles'
      ]_vars

\* the calls that are not operations of the table
NonTableCalls ==
    {"Query::new", "with_component_filter", "run", "get_entities", "get_component",
     "get_component_mut", "keep_handle", "drop_handle", "borrow", "borrow_mut", "write",
     "release"}

\* C26: building a query, Query::run, Query::get_entities, get_component,
\* get_component_mut and keeping, borrowing, writing through or releasing a
\* handle or a view leave the row masks, the number of rows, the column
\* lengths, which slots are filled, the cursor and the registered bits
\* unchanged.
C26_TableFrame ==
    [][call' \in NonTableCalls =>
            /\ entity_component_bitmasks' = entity_component_bitmasks
            /\ next_free_entity_id' = next_free_entity_id
            /\ component_bitmasks' = component_bitmasks
            /\ DOMAIN components' = DOMAIN components
            /\ \A T \in DOMAIN components :
                    /\ DOMAIN components'[T] = DOMAIN components[T]
                    /\ \A r \in DOMAIN components[T] :
                            (components'[T][r] = None) <=> (components[T][r] = None)
      ]_vars

\* a write through a RefMut has replaced the value of a slot
C26_Witness ==
    /\ call = "write"
    /\ \E T \in DOMAIN components : \E r \in DOMAIN components[T] :
            components[T][r] = {2} /\ HasBit(r, T)

\* C25: a Query starts with filter mask 0 and an empty type list; a
\* with_component_filter call for a registered type ORs the type's bit into
\* the mask and appends the type to the list, a call for an unregistered
\* type returns ComponentNotRegistered and changes neither; so the mask is
\* always the OR of the bits of the listed types.
C25_FilterAccumulates ==
    /\ [](query.live =>
            query.filter_mask =
                UNION {component_bitmasks[query.component_type_ids[k]] :
                            k \in DOMAIN query.component_type_ids})
    /\ [][/\ call' = "Query::new" =>
                query'.filter_mask = {} /\ DOMAIN query'.component_type_ids = {}
          /\ \A T \in Types :
                with_component_filter(T) =>
                    IF T \in DOMAIN component_bitmasks
                    THEN /\ ret' = Ok
                         /\ query'.filter_mask =
                                query.filter_mask \cup component_bitmasks[T]
                         /\ DOMAIN query'.component_type_ids =
                                0 .. VecLen(query.component_type_ids)
                         /\ query'.component_type_ids[VecLen(query.component_type_ids)] = T
                         /\ \A k \in DOMAIN query.component_type_ids :
                                query'.component_type_ids[k] = query.component_type_ids[k]
                    ELSE /\ ret' = ComponentNotRegistered
                         /\ query' = query
         ]_vars

C25_Witness ==
    /\ call = "with_component_filter"
    /\ ret = Ok
    /\ VecLen(query.component_type_ids) = 2
    /\ query.component_type_ids[0] # query.component_type_ids[1]
    /\ Cardinality(query.filter_mask) = 2

\* C27: insert of a value of type T returns Ok and stores the value when no
\* resource of type T is present; otherwise it returns
\* ResourceAlreadyRegistered and the store is unchanged.
C27_InsertOnce ==
    [][\A T \in Types, v \in Values :
        insert(T, v) =>
            IF T \notin DOMAIN data
            THEN /\ ret' = Ok
                 /\ DOMAIN data' = DOMAIN data \cup {T}
                 /\ data'[T] = [type |-> T, value |-> v]
                 /\ \A x \in DOMAIN data : data'[x] = data[x]
            ELSE /\ ret' = ResourceAlreadyRegistered
                 /\ data' = data
      ]_vars

C27_Witness ==
    /\ call = "insert"
    /\ ret = ResourceAlreadyRegistered
    /\ \A T \in Types : T \in DOMAIN data /\ data[T].value = T

\* C28: replace of a value v of type T always succeeds; afterwards the
\* entry of T holds v (get returns v, contains is true); a replace(v) on a
\* store whose entry of T already holds v leaves the store as it is.
C28_ReplaceAlways ==
    [][\A T \in Types, v \in Values :
        replace(T, v) =>
            /\ ret' = Ok
            /\ T \in DOMAIN data'
            /\ data'[T] = [type |-> T, value |-> v]
            /\ (T \in DOMAIN data /\ data[T] = [type |-> T, value |-> v]) => data' = data
      ]_vars

C28_Witness ==
    /\ call = "replace"
    /\ ret = Ok
    /\ \A T \in Types : T \in DOMAIN data /\ data[T].value = 2

\* C29: remove::<T>() returns true iff a resource of type T was present;
\* afterwards T is absent, get and get_mut of an absent type return None
\* and an insert of an absent type succeeds; contains reports presence, and
\* every entry present holds a value of the type of its key (get returns a
\* value iff contains is true).
C29_Remove ==
    /\ [](\A T \in DOMAIN data : data[T].type = T)
    /\ [][\A T \in Types :
            /\ remove(T) =>
                    /\ ret' = (T \in DOMAIN data)
                    /\ DOMAIN data' = DOMAIN data \ {T}
                    /\ \A x \in DOMAIN data' : data'[x] = data[x]
            /\ contains(T) => ret' = (T \in DOMAIN data)
            /\ get(T) => (ret' # {} <=> T \in DOMAIN data)
            /\ \A written \in Writes :
                    get_mut(T, written) => (ret' # {} <=> T \in DOMAIN data)
            /\ \A v \in Values :
                    (insert(T, v) /\ T \notin DOMAIN data) => ret' = Ok
         ]_vars

C29_Witness ==
    /\ call = "remove"
    /\ ret = TRUE
    /\ Cardinality(DOMAIN data) = 1

\* the calls on the resource store
ResourceCalls == {"insert", "replace", "get", "get_mut", "remove", "contains"}

\* C30: a resource operation for type T changes only the entry of T in the
\* resource store, never another entry and never the entity table; no
\* operation of the entity table changes the resource store.
C30_ResourcesIndependent ==
    [][/\ call' \in ResourceCalls =>
            UNCHANGED <<components, component_bitmasks, masks, cursor>>
       /\ \A T \in Types : \A x \in Types \ {T} :
            \/ /\ x \in DOMAIN data <=> x \in DOMAIN data'
               /\ x \in DOMAIN data => data'[x] = data[x]
            \/ \A v \in Values : \A written \in Writes :
                  ~(insert(T, v) \/ replace(T, v) \/ get_mut(T, written) \/ remove(T))
       /\ call' \notin ResourceCalls => data' = data
      ]_vars

C30_Witness ==
    /\ call = "with_component"
    /\ ret = Ok
    /\ \E T \in Types :
          /\ T \in DOMAIN data
          /\ T \in DOMAIN component_bitmasks
          /\ \E r \in Rows : masks[r] = component_bitmasks[T]

\* C31, as stated: the number of allocated rows is at most the largest
\* number of rows with a non-zero mask that has occurred so far.
C31_RowsWithinHighWater == NumRows <= hwm

\* C31, amended: the number of allocated rows is at most one more than the
\* largest number of rows with a non-zero mask that has occurred so far
\* (create_entity allocates the row before any component makes it live).
C31_RowsWithinHighWaterPlusOne == NumRows <= hwm + 1

\* a row was appended while every row was live, and later rows were freed
C31_Witness ==
    /\ NumRows = hwm + 1
    /\ hwm > 0
    /\ Cardinality(LiveRows(masks)) < hwm

\* C32: at most MaskWidth types are registered, no registered type has
\* mask 0, and no mask has a bit at position MaskWidth or above.
C32_AtMostWidthTypes ==
    /\ Cardinality(DOMAIN component_bitmasks) <= MaskWidth
    /\ \A T \in DOMAIN component_bitmasks :
            /\ component_bitmasks[T] # Zero
            /\ \A b \in component_bitmasks[T] : b >= 0 /\ b < MaskWidth

\* C33: on a row r that remove_entity freed and create_entity gave to a new
\* entity, add_component_to_entity(r, v) of a registered type,
\* remove_entity_component::<T>(r) of a registered type and remove_entity(r)
\* return Ok and act on the row as it is now: the value is stored and the
\* bit set, the bit is cleared, the mask is zeroed.
C33_StaleIdAccepted ==
    [][\A r \in recycled.reused :
        /\ \A T \in DOMAIN component_bitmasks :
            /\ add_component_to_entity(r, T, 1) =>
                    /\ ret' = Ok
                    /\ components'[T][r] = {1}
                    /\ masks'[r] = masks[r] \cup component_bitmasks[T]
            /\ remove_entity_component(T, r) =>
                    /\ ret' = Ok
                    /\ masks'[r] = IF component_bitmasks[T] \subseteq masks[r]
                                   THEN masks[r] \ component_bitmasks[T]
                                   ELSE masks[r]
        /\ remove_entity(r) => ret' = Ok /\ masks'[r] = {}
      ]_vars

\* C34: Query::run does not panic: every row the filter mask matches has a
\* non-empty slot in the column of every filter type.
C34_RunNeverFaults ==
    [][call' = "run" =>
        /\ ~panicked'
        /\ \A k \in DOMAIN query.component_type_ids : \A r \in Rows :
                query.filter_mask \subseteq masks[r] =>
                    /\ query.component_type_ids[k] \in DOMAIN components
                    /\ r \in DOMAIN components[query.component_type_ids[k]]
                    /\ components[query.component_type_ids[k]][r] # {}
      ]_vars

\* C35: register_component, with_component, add_component_to_entity,
\* remove_entity_component and remove_entity leave the cursor unchanged; a
\* with_component that returns Ok stores the value in the row of the cursor
\* and sets the type's bit there, also when that row was removed and no
\* create_entity has selected it since.
C35_CursorOnlyByCreate ==
    [][/\ call' \in {"register_component", "with_component", "add_component_to_entity",
                     "remove_entity_component", "remove_entity"} => cursor' = cursor
       /\ \A T \in Types, v \in Values :
            (with_component(T, v) /\ ret' = Ok) =>
                /\ cursor \in Rows
                /\ components'[T][cursor] = {v}
                /\ masks'[cursor] # {}
                /\ \A r \in Rows \ {cursor} : masks'[r] = masks[r]
      ]_vars

\* with_component has attached to the row of the cursor after remove_entity
\* removed that row, without a create_entity in between
C35_Witness ==
    /\ call = "with_component"
    /\ ret = Ok
    /\ cursor \in life.removed
    /\ masks[cursor] # {}

\* the rows a query may return: live rows when the query has a filter type,
\* every allocated row when it has none
LiveOrAll(ids) ==
    IF DOMAIN query.component_type_ids # {}
    THEN \A i \in DOMAIN ids : masks[ids[i]] # {}
    ELSE {ids[i] : i \in DOMAIN ids} = Rows

\* C36: every row id that Query::run or Query::get_entities returns for a
\* query with at least one filter type has a non-zero mask; a query with no
\* filter type returns every allocated row, the rows with mask 0 included.
C36_FilteredRowsLive ==
    [][/\ (call' = "run" /\ ~panicked') => LiveOrAll(ret'.entity_ids)
       /\ call' = "get_entities" => LiveOrAll(ret'.ids)
      ]_vars

\* get_entities of a query without filter has returned a row with mask 0
\* next to a live row
C36_Witness ==
    /\ call = "get_entities"
    /\ DOMAIN query.component_type_ids = {}
    /\ \E i, j \in DOMAIN ret.ids : masks[ret.ids[i]] = {} /\ masks[ret.ids[j]] # {}

\* C37: the row create_entity selects has mask 0 right after the call, and
\* the call leaves the mask of every row with a non-zero mask unchanged.
C37_CreateSelectsFreeRow ==
    [][call' = "create_entity" =>
        /\ cursor' \in DOMAIN masks'
        /\ masks'[cursor'] = {}
        /\ \A r \in Rows : masks[r] # {} => masks'[r] = masks[r]
      ]_vars

\* create_entity has selected a row below a live row
C37_Witness ==
    /\ call = "create_entity"
    /\ masks[cursor] = {}
    /\ \E r \in Rows : r > cursor /\ masks[r] # {}

\* C38: remove_entity_component::<T>(r) that clears the only set bit of row
\* r leaves the table that remove_entity(r) leaves (mask of r zero, the
\* other masks, the columns, the registered bits and the cursor unchanged,
\* Ok returned), and the create_entity that follows selects r, without
\* appending, when no lower row has mask 0.
C38_LastDetachFrees ==
    [][/\ \A T \in DOMAIN component_bitmasks, r \in Rows :
            (/\ remove_entity_component(T, r)
             /\ masks[r] # {}
             /\ masks[r] = component_bitmasks[T]) =>
                /\ ret' = Ok
                /\ masks' = [i \in Rows |-> IF i = r THEN {} ELSE masks[i]]
                /\ components' = components
                /\ component_bitmasks' = component_bitmasks
                /\ cursor' = cursor
                /\ ~panicked'
                /\ freed'.row = {r}
       /\ (/\ call' = "create_entity"
           /\ call = "remove_entity_component"
           /\ freed.by = "remove_entity_component") =>
                \A r \in freed.row :
                    (\A j \in Rows : j < r => masks[j] # {}) =>
                        /\ cursor' = r
                        /\ masks' = masks
                        /\ components' = components
                        /\ freed'.reused
      ]_vars

\* the last bit of a row was detached beside a live row, and the
\* create_entity that followed selected the row
C38_Witness ==
    /\ call = "create_entity"
    /\ freed.by = "remove_entity_component"
    /\ freed.reused
    /\ cursor \in freed.row
    /\ \E r \in Rows : masks[r] # {}

====
